---- MODULE Spec2Model ----
(***************************************************************************)
(* Model of overlore's DatabaseHandler (src/overlore/db/handler.py): the   *)
(* event decoder (process_event and the __parse_* helpers) and the         *)
(* concurrent event store (__lock/__release, __insert, __add, get_by_id,   *)
(* get_all) working on one shared SQLite connection.                       *)
(*                                                                         *)
(* Python lists are 0-based, TLA+ sequences 1-based: Python data[i] is     *)
(* written At(data, i) below and is data[i + 1] in TLA+.                   *)
(***************************************************************************)
EXTENDS Integers, Sequences, FiniteSets, TLC

----------------------------------------------------------------------------
(* Bounds of the model *)

\* number of threads that call into the handler concurrently
NumProcs == 2
\* total number of calls (process_event, get_by_id, get_all) the threads make
MaxCalls == 3
\* number of statements/commits the backing store may fail in a run
MaxFaults == 1
\* number of calls of the single caller that is fed every envelope
MaxSeqCalls == 2
\* number of calls of the single caller that ingests and reads back
MaxBatchCalls == 4
\* number of init calls on the one path
MaxInits == 3
\* number of calls the caller makes between and after the init calls
MaxInitCalls == 3
\* number of zero digits in the middle of a raw amount word
MaxZeros == 10

Procs == 1..NumProcs

----------------------------------------------------------------------------
(* Python values.  A value carries its type, as Python's do: json.dumps    *)
(* and the column bindings dispatch on it.                                 *)

PyInt(n) == [t |-> "int", v |-> n]
PyList(s) == [t |-> "list", v |-> s]
\* a dict is its items in insertion order, each <<key, value>>
PyDict(items) == [t |-> "dict", v |-> items]

\* obj[key]
Get(obj, key) ==
    LET i == CHOOSE i \in 1..Len(obj.v) : obj.v[i][1] = key
    IN obj.v[i][2]

\* del obj[key]
Del(obj, key) ==
    LET Keep(item) == item[1] # key
    IN PyDict(SelectSeq(obj.v, Keep))

\* the outcome of a call: a value, or the exception it raised
Ok(val) == [err |-> "", val |-> val]
Raise(e) == [err |-> e, val |-> PyInt(0)]

\* exceptions
IndexError == "IndexError"
ValueError == "ValueError"
RealmNotFound == "RealmNotFound"
StorageError == "sqlite3.Error"
ReleaseError == "RuntimeError: release unlocked lock"
NoEventEmitted == "RuntimeError: eventEmitted no present in event"
NoKeys == "RuntimeError: Event had no keys"
NoData == "RuntimeError: Event had no data"

----------------------------------------------------------------------------
(* Hex words.  A word is the string delivered by the feed, modelled as the *)
(* sequence of its characters; int(word, base=16) accepts an optional "0x" *)
(* prefix followed by at least one hex digit.                              *)

HexChars == <<"0", "1", "2", "3", "4", "5", "6", "7", "8", "9",
              "a", "b", "c", "d", "e", "f">>

IsHexChar(c) == \E i \in 1..16 : HexChars[i] = c

DigitVal(c) == (CHOOSE i \in 1..16 : HexChars[i] = c) - 1

\* the word without its "0x" prefix
Digits(w) ==
    IF Len(w) >= 2 /\ w[1] = "0" /\ w[2] = "x" THEN SubSeq(w, 3, Len(w)) ELSE w

IsHexWord(w) ==
    /\ Len(Digits(w)) > 0
    /\ \A i \in 1..Len(Digits(w)) : IsHexChar(Digits(w)[i])

RECURSIVE DigitsToInt(_)
DigitsToInt(ds) ==
    IF ds = <<>> THEN 0
    ELSE 16 * DigitsToInt(SubSeq(ds, 1, Len(ds) - 1)) + DigitVal(ds[Len(ds)])

\* int(w, base=16) of a word that parses
HexToInt(w) == DigitsToInt(Digits(w))

\* data[i] of a Python list (0-based); defined for 0 <= i < len(data)
At(data, i) == data[i + 1]

\* data[k:] of a Python list: slicing never raises, it clamps
SliceFrom(data, k) ==
    IF k >= Len(data) THEN <<>> ELSE SubSeq(data, k + 1, Len(data))

\* The exception raised by evaluating int(data[i], base=16) for the indices
\* of idx in order ("" when none does): IndexError at an index past the end,
\* ValueError at a word that is no hex number.
ReadError(data, idx) ==
    LET bad == {k \in 1..Len(idx) :
                   \/ idx[k] >= Len(data)
                   \/ ~IsHexWord(At(data, idx[k]))}
    IN IF bad = {} THEN ""
       ELSE LET k == CHOOSE k \in bad : \A j \in bad : k <= j
            IN IF idx[k] >= Len(data) THEN IndexError ELSE ValueError

\* int(data[i], base=16)
IntAt(data, i) == HexToInt(At(data, i))

\* range(lo, hi, step) as a sequence
Range(lo, hi, step) ==
    LET n == IF hi > lo THEN (hi - lo + step - 1) \div step ELSE 0
    IN [k \in 1..n |-> lo + (k - 1) * step]

----------------------------------------------------------------------------
(* Collaborators whose code is not in src/: the event-type constants and   *)
(* the realm registry.                                                     *)

\* overlore.graphql.constants.EventType (EventKeyHash): the key words that
\* name the two event types, as the feed spells them
COMBAT_OUTCOME_KEY == <<"0", "x", "c", "0">>
ORDER_ACCEPTED_KEY == <<"0", "x", "a", "c">>

\* overlore.sqlite.constants.EventType (SqLiteEventType): the stored type
SQL_COMBAT_OUTCOME == 0
SQL_ORDER_ACCEPTED == 1

\* overlore.eternum.constants.Realms: entity id -> (x, y), built once
RealmIds == {1, 2}
RealmTable == [id \in RealmIds |-> IF id = 1 THEN <<10, 20>> ELSE <<30, 40>>]

\* Realms.position_by_id(id)
PositionById(id) ==
    IF id \in RealmIds
    THEN Ok(PyList(<<PyInt(RealmTable[id][1]), PyInt(RealmTable[id][2])>>))
    ELSE Raise(RealmNotFound)

----------------------------------------------------------------------------
(* The decoder: handler.py lines 118-179 *)

\* __get_event_type: str(keys[0])
GetEventType(keys) == At(keys, 0)

\* int(int(raw, base=16) / 1000): true division, then truncation.  For raw
\* below 2^44 * 1000, as every word the decoder reads here is, the double
\* nearest raw / 1000 lies below the next integer, so its truncation is the
\* integer quotient; ScaleAmountWide is the same expression on a word of
\* any length.
ScaleAmount(raw) == raw \div 1000

\* the values of the hex digits of a word, most significant first
HexDigits(w) == [k \in 1..Len(Digits(w)) |-> DigitVal(Digits(w)[k])]

\* the binary digits of a sequence of hex digit values
BitsOf(ds) ==
    [k \in 1..(4 * Len(ds)) |->
        (ds[(k - 1) \div 4 + 1] \div 2^(3 - ((k - 1) % 4))) % 2]

\* binary digits without their leading zeros
Strip(bs) ==
    LET ones == {k \in 1..Len(bs) : bs[k] = 1}
    IN IF ones = {} THEN <<>>
       ELSE SubSeq(bs, CHOOSE k \in ones : \A j \in ones : k <= j, Len(bs))

\* binary digits plus one
Inc(bs) ==
    LET zeros == {k \in 1..Len(bs) : bs[k] = 0}
    IN IF zeros = {} THEN <<1>> \o [k \in 1..Len(bs) |-> 0]
       ELSE LET p == CHOOSE k \in zeros : \A j \in zeros : k >= j
            IN [k \in 1..Len(bs) |->
                   IF k < p THEN bs[k] ELSE IF k = p THEN 1 ELSE 0]

\* long division by 1000 of the hex digits ds, entered with remainder r:
\* the hex digits of the quotient and the remainder left
RECURSIVE DivDigits(_, _)
DivDigits(ds, r) ==
    IF ds = <<>> THEN [q |-> <<>>, r |-> r]
    ELSE LET x == 16 * r + ds[1]
             rest == DivDigits(Tail(ds), x % 1000)
         IN [q |-> <<x \div 1000>> \o rest.q, r |-> rest.r]

\* the binary digits a double keeps
MantissaBits == 53

\* int(int(w, base=16) / 1000) on a word of any length, in binary digits:
\* the quotient int / int is the double nearest the exact quotient (ties to
\* the even mantissa), and int() drops its fraction.
ScaleAmountWide(w) ==
    LET d == DivDigits(HexDigits(w), 0)
        qs == Strip(BitsOf(d.q))
        L == Len(qs)
        \* hex digits of the quotient after the point, past the mantissa
        f == DivDigits([k \in 1..(IF L <= MantissaBits
                                  THEN (MantissaBits + 4 - L) \div 4 ELSE 0)
                          |-> 0], d.r)
        digits == qs \o BitsOf(f.q)
        sig == SubSeq(digits, 1, MantissaBits)
        guard == digits[MantissaBits + 1]
        sticky == \/ \E k \in (MantissaBits + 2)..Len(digits) : digits[k] = 1
                  \/ f.r # 0
        up == guard = 1 /\ (sticky \/ sig[MantissaBits] = 1)
        rounded == IF up THEN Inc(sig) ELSE sig
    IN IF L = 0 THEN <<>>
       ELSE IF L >= MantissaBits
            THEN rounded \o [k \in 1..(L - MantissaBits) |-> 0]
            ELSE SubSeq(rounded, 1, L + Len(rounded) - MantissaBits)

\* __parse_resources with end_idx_resources = resource_len: the pairs
\* counted as single words
ParseResourcesSingleStride(data) ==
    IF ReadError(data, <<0>>) # ""
    THEN [err |-> ReadError(data, <<0>>), rest |-> <<>>, val |-> PyList(<<>>)]
    ELSE
      LET resource_len == IntAt(data, 0)
          end_idx_resources == resource_len
          is == Range(1, end_idx_resources, 2)
          idx == [k \in 1..(2 * Len(is)) |-> is[(k + 1) \div 2] + ((k + 1) % 2)]
          e == ReadError(data, idx)
      IN IF e # ""
         THEN [err |-> e, rest |-> <<>>, val |-> PyList(<<>>)]
         ELSE [err |-> "",
               rest |-> SliceFrom(data, end_idx_resources + 1),
               val |-> PyList([k \in 1..Len(is) |->
                          PyDict(<< <<"type", PyInt(IntAt(data, is[k]))>>,
                                    <<"amount",
                                      PyInt(ScaleAmount(IntAt(data, is[k] + 1)))>> >>)])]

\* __parse_resources(data) -> (rest, resources)
ParseResources(data) ==
    IF ReadError(data, <<0>>) # ""
    THEN [err |-> ReadError(data, <<0>>), rest |-> <<>>, val |-> PyList(<<>>)]
    ELSE
      LET resource_len == IntAt(data, 0)
          end_idx_resources == resource_len * 2
          is == Range(1, end_idx_resources, 2)
          \* the words read, in evaluation order: data[i], data[i + 1]
          idx == [k \in 1..(2 * Len(is)) |-> is[(k + 1) \div 2] + ((k + 1) % 2)]
          e == ReadError(data, idx)
      IN IF e # ""
         THEN [err |-> e, rest |-> <<>>, val |-> PyList(<<>>)]
         ELSE [err |-> "",
               rest |-> SliceFrom(data, end_idx_resources + 1),
               val |-> PyList([k \in 1..Len(is) |->
                          PyDict(<< <<"type", PyInt(IntAt(data, is[k]))>>,
                                    <<"amount",
                                      PyInt(ScaleAmount(IntAt(data, is[k] + 1)))>> >>)])]

\* __parse_attacking_entity_ids returning data[length:], the count word
\* not counted
ParseAttackingEntityIdsShortCursor(data) ==
    IF ReadError(data, <<0>>) # ""
    THEN [err |-> ReadError(data, <<0>>), rest |-> <<>>, val |-> PyList(<<>>)]
    ELSE
      LET length == IntAt(data, 0)
          is == Range(1, length, 1)
          e == ReadError(data, is)
      IN IF e # ""
         THEN [err |-> e, rest |-> <<>>, val |-> PyList(<<>>)]
         ELSE [err |-> "",
               rest |-> SliceFrom(data, length),
               val |-> PyList([k \in 1..Len(is) |-> PyInt(IntAt(data, is[k]))])]

\* __parse_attacking_entity_ids(data) -> (rest, attacking_entity_ids)
ParseAttackingEntityIds(data) ==
    IF ReadError(data, <<0>>) # ""
    THEN [err |-> ReadError(data, <<0>>), rest |-> <<>>, val |-> PyList(<<>>)]
    ELSE
      LET length == IntAt(data, 0)
          is == Range(1, length, 1)
          e == ReadError(data, is)
      IN IF e # ""
         THEN [err |-> e, rest |-> <<>>, val |-> PyList(<<>>)]
         ELSE [err |-> "",
               rest |-> SliceFrom(data, 1 + length),
               val |-> PyList([k \in 1..Len(is) |-> PyInt(IntAt(data, is[k]))])]

\* __parse_combat_outcome_event(keys, data) -> ParsedEvent
ParseCombatOutcomeEvent(keys, data) ==
    IF ReadError(keys, <<1, 2>>) # "" THEN Raise(ReadError(keys, <<1, 2>>))
    ELSE
      LET attacker_realm_id == IntAt(keys, 1)
          target_realm_entity_id == IntAt(keys, 2)
          ids == ParseAttackingEntityIds(data)
          res == ParseResources(ids.rest)
          data3 == res.rest
      IN IF ids.err # "" THEN Raise(ids.err)
         ELSE IF res.err # "" THEN Raise(res.err)
         ELSE IF ReadError(data3, <<0, 1, 2>>) # ""
              THEN Raise(ReadError(data3, <<0, 1, 2>>))
         ELSE IF PositionById(attacker_realm_id).err # ""
              THEN Raise(PositionById(attacker_realm_id).err)
         ELSE IF PositionById(target_realm_entity_id).err # ""
              THEN Raise(PositionById(target_realm_entity_id).err)
         ELSE Ok(PyDict(<<
                <<"type", PyInt(SQL_COMBAT_OUTCOME)>>,
                <<"active_pos", PositionById(attacker_realm_id).val>>,
                <<"passive_pos", PositionById(target_realm_entity_id).val>>,
                <<"attacking_entity_ids", ids.val>>,
                <<"stolen_resources", res.val>>,
                <<"winner", PyInt(IntAt(data3, 0))>>,
                <<"damage", PyInt(IntAt(data3, 1))>>,
                <<"importance", PyInt(0)>>,
                <<"ts", PyInt(IntAt(data3, 2))>> >>))

\* __parse_trade_event resolving both positions from maker_id
ParseTradeEventMakerTwice(keys, data) ==
    IF ReadError(keys, <<1>>) # "" THEN Raise(ReadError(keys, <<1>>))
    ELSE IF ReadError(data, <<0, 1>>) # "" THEN Raise(ReadError(data, <<0, 1>>))
    ELSE
      LET maker_id == IntAt(data, 0)
          taker_id == IntAt(data, 1)
          maker == ParseResources(SliceFrom(data, 2))
          taker == ParseResources(maker.rest)
          data3 == taker.rest
      IN IF maker.err # "" THEN Raise(maker.err)
         ELSE IF taker.err # "" THEN Raise(taker.err)
         ELSE IF ReadError(data3, <<0>>) # "" THEN Raise(ReadError(data3, <<0>>))
         ELSE IF PositionById(maker_id).err # ""
              THEN Raise(PositionById(maker_id).err)
         ELSE IF PositionById(maker_id).err # ""
              THEN Raise(PositionById(maker_id).err)
         ELSE Ok(PyDict(<<
                <<"type", PyInt(SQL_ORDER_ACCEPTED)>>,
                <<"active_pos", PositionById(maker_id).val>>,
                <<"passive_pos", PositionById(maker_id).val>>,
                <<"resources_maker", maker.val>>,
                <<"resources_taker", taker.val>>,
                <<"importance", PyInt(0)>>,
                <<"ts", PyInt(IntAt(data3, 0))>> >>))

\* __parse_trade_event reading the taker before the maker
ParseTradeEventSwapped(keys, data) ==
    IF ReadError(keys, <<1>>) # "" THEN Raise(ReadError(keys, <<1>>))
    ELSE IF ReadError(data, <<0, 1>>) # "" THEN Raise(ReadError(data, <<0, 1>>))
    ELSE
      LET maker_id == IntAt(data, 1)
          taker_id == IntAt(data, 0)
          maker == ParseResources(SliceFrom(data, 2))
          taker == ParseResources(maker.rest)
          data3 == taker.rest
      IN IF maker.err # "" THEN Raise(maker.err)
         ELSE IF taker.err # "" THEN Raise(taker.err)
         ELSE IF ReadError(data3, <<0>>) # "" THEN Raise(ReadError(data3, <<0>>))
         ELSE IF PositionById(maker_id).err # ""
              THEN Raise(PositionById(maker_id).err)
         ELSE IF PositionById(taker_id).err # ""
              THEN Raise(PositionById(taker_id).err)
         ELSE Ok(PyDict(<<
                <<"type", PyInt(SQL_ORDER_ACCEPTED)>>,
                <<"active_pos", PositionById(maker_id).val>>,
                <<"passive_pos", PositionById(taker_id).val>>,
                <<"resources_maker", maker.val>>,
                <<"resources_taker", taker.val>>,
                <<"importance", PyInt(0)>>,
                <<"ts", PyInt(IntAt(data3, 0))>> >>))

\* __parse_trade_event(keys, data) -> ParsedEvent
ParseTradeEvent(keys, data) ==
    IF ReadError(keys, <<1>>) # "" THEN Raise(ReadError(keys, <<1>>))
    ELSE IF ReadError(data, <<0, 1>>) # "" THEN Raise(ReadError(data, <<0, 1>>))
    ELSE
      LET maker_id == IntAt(data, 0)
          taker_id == IntAt(data, 1)
          maker == ParseResources(SliceFrom(data, 2))
          taker == ParseResources(maker.rest)
          data3 == taker.rest
      IN IF maker.err # "" THEN Raise(maker.err)
         ELSE IF taker.err # "" THEN Raise(taker.err)
         ELSE IF ReadError(data3, <<0>>) # "" THEN Raise(ReadError(data3, <<0>>))
         ELSE IF PositionById(maker_id).err # ""
              THEN Raise(PositionById(maker_id).err)
         ELSE IF PositionById(taker_id).err # ""
              THEN Raise(PositionById(taker_id).err)
         ELSE Ok(PyDict(<<
                <<"type", PyInt(SQL_ORDER_ACCEPTED)>>,
                <<"active_pos", PositionById(maker_id).val>>,
                <<"passive_pos", PositionById(taker_id).val>>,
                <<"resources_maker", maker.val>>,
                <<"resources_taker", taker.val>>,
                <<"importance", PyInt(0)>>,
                <<"ts", PyInt(IntAt(data3, 0))>> >>))

\* An envelope is the dict delivered by the feed.  has* tell whether the
\* key is present; dict.get returns None for a missing key, and None, {}
\* and [] are all falsy.
Envelope(hasEvent, hasKeys, keys, hasData, data) ==
    [hasEvent |-> hasEvent, hasKeys |-> hasKeys, keys |-> keys,
     hasData |-> hasData, data |-> data]

\* process_event without the check of data
ParseEventNoDataCheck(event) ==
    IF ~event.hasEvent \/ (~event.hasKeys /\ ~event.hasData)
    THEN Raise(NoEventEmitted)
    ELSE IF ~event.hasKeys \/ event.keys = <<>> THEN Raise(NoKeys)
    ELSE IF GetEventType(event.keys) = COMBAT_OUTCOME_KEY
         THEN ParseCombatOutcomeEvent(event.keys, event.data)
    ELSE ParseTradeEvent(event.keys, event.data)

\* process_event, lines 220-232: the shape checks and the decoding, up to
\* the call of __add
ParseEvent(event) ==
    IF ~event.hasEvent \/ (~event.hasKeys /\ ~event.hasData)
    THEN Raise(NoEventEmitted)
    ELSE IF ~event.hasKeys \/ event.keys = <<>> THEN Raise(NoKeys)
    ELSE IF ~event.hasData \/ event.data = <<>> THEN Raise(NoData)
    ELSE IF GetEventType(event.keys) = COMBAT_OUTCOME_KEY
         THEN ParseCombatOutcomeEvent(event.keys, event.data)
    ELSE ParseTradeEvent(event.keys, event.data)

----------------------------------------------------------------------------
(* The store: handler.py lines 62-116 and 191-217 *)

RECURSIVE JoinTokens(_, _)
\* the token sequences of parts, separated by sep
JoinTokens(parts, sep) ==
    IF parts = <<>> THEN <<>>
    ELSE IF Len(parts) = 1 THEN parts[1]
    ELSE parts[1] \o <<sep>> \o JoinTokens(Tail(parts), sep)

RECURSIVE JsonDumps(_)
\* json.dumps(value): the text, as its sequence of tokens.  Integers are
\* written in decimal, a string between quotes, items after ", " and a key
\* before ": ", in the dict's insertion order.
JsonDumps(value) ==
    IF value.t = "int" THEN <<ToString(value.v)>>
    ELSE IF value.t = "list"
    THEN <<"[">>
         \o JoinTokens([k \in 1..Len(value.v) |-> JsonDumps(value.v[k])], ", ")
         \o <<"]">>
    ELSE <<"{">>
         \o JoinTokens([k \in 1..Len(value.v) |->
                          <<"\"", value.v[k][1], "\"", ": ">>
                          \o JsonDumps(value.v[k][2])], ", ")
         \o <<"}">>

\* the importance __add writes, line 107
FIXED_IMPORTANCE == 4

\* __add without del obj["importance"]
AddValuesKeepImportance(obj) ==
    LET event_type == Get(obj, "type")
        obj1 == Del(obj, "type")
        active_pos == Get(obj1, "active_pos")
        obj2 == Del(obj1, "active_pos")
        passive_pos == Get(obj2, "passive_pos")
        obj3 == Del(obj2, "passive_pos")
        ts == Get(obj3, "ts")
        obj4 == Del(obj3, "ts")
        obj5 == obj4
        additional_data == JsonDumps(obj5)
    IN << event_type.v, FIXED_IMPORTANCE, ts.v, additional_data,
          active_pos.v[1].v, active_pos.v[2].v,
          passive_pos.v[1].v, passive_pos.v[2].v >>

\* __add writing the importance the decoder computed
AddValuesDecodedImportance(obj) ==
    LET event_type == Get(obj, "type")
        obj1 == Del(obj, "type")
        active_pos == Get(obj1, "active_pos")
        obj2 == Del(obj1, "active_pos")
        passive_pos == Get(obj2, "passive_pos")
        obj3 == Del(obj2, "passive_pos")
        ts == Get(obj3, "ts")
        obj4 == Del(obj3, "ts")
        obj5 == Del(obj4, "importance")
        additional_data == JsonDumps(obj5)
    IN << event_type.v, Get(obj4, "importance").v, ts.v, additional_data,
          active_pos.v[1].v, active_pos.v[2].v,
          passive_pos.v[1].v, passive_pos.v[2].v >>

\* __add(obj), lines 90-114: the values bound to the INSERT statement
AddValues(obj) ==
    LET event_type == Get(obj, "type")
        obj1 == Del(obj, "type")
        active_pos == Get(obj1, "active_pos")
        obj2 == Del(obj1, "active_pos")
        passive_pos == Get(obj2, "passive_pos")
        obj3 == Del(obj2, "passive_pos")
        ts == Get(obj3, "ts")
        obj4 == Del(obj3, "ts")
        obj5 == Del(obj4, "importance")
        additional_data == JsonDumps(obj5)
    IN << event_type.v, FIXED_IMPORTANCE, ts.v, additional_data,
          active_pos.v[1].v, active_pos.v[2].v,
          passive_pos.v[1].v, passive_pos.v[2].v >>

\* SpatiaLite's MakePoint(x, y) and its accessors X(), Y()
MakePoint(x, y) == [geom |-> "POINT", x |-> x, y |-> y]
X(p) == p.x
Y(p) == p.y

\* id INTEGER NOT NULL PRIMARY KEY AUTOINCREMENT (line 65): one more than
\* the largest id the table has ever held; no row is ever deleted
NextRowId(table) == Len(table) + 1

\* the row written by the INSERT of lines 101-104
InsertRow(id, values) ==
    [id |-> id, type |-> values[1], importance |-> values[2],
     ts |-> values[3], metadata |-> values[4],
     active_pos |-> MakePoint(values[5], values[6]),
     passive_pos |-> MakePoint(values[7], values[8])]

\* the columns selected by lines 196 and 210
SelectColumns(row) ==
    << row.id, row.type, row.importance, row.ts, row.metadata,
       X(row.active_pos), Y(row.active_pos),
       X(row.passive_pos), Y(row.passive_pos) >>

\* SELECT ... FROM events WHERE id=? (lines 195-200)
SelectById(table, event_id) ==
    LET Match(row) == row.id = event_id
    IN [k \in 1..Len(SelectSeq(table, Match)) |->
          SelectColumns(SelectSeq(table, Match)[k])]

\* the scan in descending rowid order
SelectAllDescending(table) ==
    [k \in 1..Len(table) |-> SelectColumns(table[Len(table) + 1 - k])]

\* SELECT ... from events (lines 210-213): a scan of the table, which
\* SQLite walks in rowid order
SelectAll(table) == [k \in 1..Len(table) |-> SelectColumns(table[k])]

\* lines 204 and 216: a fetched tuple as a StoredEvent
StoredEvent(tup) ==
    SubSeq(tup, 1, 5) \o << <<tup[6], tup[7]>>, <<tup[8], tup[9]>> >>

\* the outcome of a call of the handler
Returned(v) == [err |-> "", val |-> v]
Failed(e) == [err |-> e, val |-> 0]
NoResult == [err |-> "-", val |-> 0]

\* get_by_id returning an empty record for an id without a row
GetByIdResultEmpty(records) ==
    IF Len(records) = 0 THEN Returned(<<>>)
    ELSE Returned(StoredEvent(records[1]))

\* get_by_id, lines 203-205, on the fetched records
GetByIdResult(records) ==
    IF Len(records) = 0 THEN Failed(IndexError)
    ELSE Returned(StoredEvent(records[1]))

\* get_all, lines 216-217, on the fetched records
GetAllResult(records) ==
    Returned([k \in 1..Len(records) |-> StoredEvent(records[k])])

\* __insert, lines 84 and 87
InsertResult(rowid) == Returned(IF rowid # 0 THEN rowid ELSE 0)

----------------------------------------------------------------------------
(* The envelopes the feed delivers *)

W(digits) == <<"0", "x">> \o digits

W0 == W(<<"0">>)
W1 == W(<<"1">>)
W2 == W(<<"2">>)
W3 == W(<<"3">>)
W5 == W(<<"5">>)
W6 == W(<<"6">>)
W7 == W(<<"7">>)
W9 == W(<<"9">>)
\* 0x3e7 = 999, 0x1388 = 5000, 0x64 = 100
W999 == W(<<"3", "e", "7">>)
W5000 == W(<<"1", "3", "8", "8">>)
W100 == W(<<"6", "4">>)
\* no hex number
WBad == W(<<"z">>)
\* a key that names neither event type
UNKNOWN_KEY == W(<<"f", "f">>)

KeysSet ==
    { <<COMBAT_OUTCOME_KEY>>,
      <<COMBAT_OUTCOME_KEY, W1, W2>>,
      <<COMBAT_OUTCOME_KEY, W1, W9>>,
      <<COMBAT_OUTCOME_KEY, W9, W2>>,
      <<ORDER_ACCEPTED_KEY>>,
      <<ORDER_ACCEPTED_KEY, W7>>,
      <<UNKNOWN_KEY, W7>>,
      <<UNKNOWN_KEY, W1, W2>> }

CombatData ==
    { <<W0, W0, W1, W3, W100>>,
      <<W1, W5, W0, W2, W3, W100>>,
      <<W2, W5, W6, W1, W3, W5000, W1, W3, W100>>,
      \* two ids declared, one word left
      <<W2, W5>>,
      \* three ids declared, one word left
      <<W3, W5>>,
      \* two resources declared, two words left
      <<W1, W5, W2, W3, W5000>>,
      \* no timestamp
      <<W0, W0, W1, W3>>,
      <<W0, W0, W1, WBad, W100>> }

TradeData ==
    { <<W1, W2, W0, W0, W100>>,
      <<W1, W2, W1, W3, W5000, W0, W100>>,
      <<W2, W1, W0, W1, W3, W999, W100>>,
      \* maker or taker unknown to the registry
      <<W9, W1, W0, W0, W100>>,
      <<W1, W9, W0, W0, W100>>,
      \* one resource declared, one word left
      <<W1, W2, W1, W3>>,
      \* two resources declared, three words left
      <<W1, W2, W0, W2, W3, W5000, W3>> }

DataSet == CombatData \cup TradeData

\* every envelope: the well-shaped ones and those missing a part
Events ==
    {Envelope(TRUE, TRUE, k, TRUE, d) : k \in KeysSet, d \in DataSet}
    \cup {Envelope(FALSE, FALSE, <<>>, FALSE, <<>>),
          Envelope(TRUE, FALSE, <<>>, FALSE, <<>>)}
    \cup {Envelope(TRUE, FALSE, <<>>, TRUE, d) : d \in {<<>>, <<W0, W0, W1, W3, W100>>}}
    \cup {Envelope(TRUE, TRUE, <<>>, TRUE, <<W0, W0, W1, W3, W100>>)}
    \cup {Envelope(TRUE, TRUE, k, hasData, <<>>) :
             k \in {<<COMBAT_OUTCOME_KEY, W1, W2>>, <<ORDER_ACCEPTED_KEY, W7>>},
             hasData \in BOOLEAN}

\* the envelopes of the concurrent runs: one of each variant and one that
\* does not decode
ConcurrentEvents ==
    { Envelope(TRUE, TRUE, <<COMBAT_OUTCOME_KEY, W1, W2>>, TRUE,
               <<W0, W0, W1, W3, W100>>),
      Envelope(TRUE, TRUE, <<ORDER_ACCEPTED_KEY, W7>>, TRUE,
               <<W1, W2, W1, W3, W5000, W0, W100>>),
      Envelope(TRUE, TRUE, <<COMBAT_OUTCOME_KEY, W1, W9>>, TRUE,
               <<W0, W0, W1, W3, W100>>) }

\* the placeholder of a thread that is not in process_event
NoEvent == Envelope(FALSE, FALSE, <<>>, FALSE, <<>>)

----------------------------------------------------------------------------
(* State *)

VARIABLES
    lock,        \* DatabaseHandler.lock: TRUE while held
    rows,        \* the events table, in rowid order
    pending,     \* ids of the rows written in the connection's open transaction
    pc,          \* where each thread is in its call
    op,          \* the call each thread is in or has finished
    event,       \* the envelope of its process_event
    event_id,    \* the argument of its get_by_id
    acquired,    \* what lock.acquire returned to it (line 29)
    lastrowid,   \* cursor.lastrowid of its INSERT
    records,     \* what its cursor fetched
    result,      \* what its call returned or raised
    calls,       \* number of calls made so far
    callno,      \* the number of each thread's call
    faults,      \* number of statements the store has failed
    owner,       \* owner[id]: the call that wrote row id, and its envelope
    lockOrder,   \* the inserts in the order in which they acquired the lock
    commitOrder, \* the ids of the committed rows, in commit order
    path_exists, \* os.path.exists(path) of the backing file
    schema,      \* what the schema statements have created in the file
    db_first_launch, \* init's local of line 182
    ipc,         \* where init is
    inits,       \* number of init calls made so far
    raw,         \* a raw amount word
    amount       \* the amount decoded from it

vars == <<lock, rows, pending, pc, op, event, event_id, acquired, lastrowid,
          records, result, calls, callno, faults, owner, lockOrder, commitOrder,
          path_exists, schema, db_first_launch, ipc, inits, raw, amount>>

thread == <<pc, op, event, event_id, acquired, lastrowid, records, result, callno>>
store == <<rows, pending, owner, commitOrder>>
setup == <<path_exists, schema, db_first_launch, ipc, inits>>
scaling == <<raw, amount>>

\* what __init_db and __use_initial_queries create, lines 44-76: the
\* spatial metadata, the events table and its two geometry columns
FullSchema == {"spatial_metadata", "events", "active_pos", "passive_pos"}

\* no amount decoded yet
NoAmount == [set |-> FALSE, bits |-> <<>>]

\* no call made yet: the lock of line 26 free, no row written
InitCalls ==
    /\ lock = FALSE
    /\ rows = <<>>
    /\ pending = {}
    /\ pc = [t \in Procs |-> "idle"]
    /\ op = [t \in Procs |-> "none"]
    /\ event = [t \in Procs |-> NoEvent]
    /\ event_id = [t \in Procs |-> 0]
    /\ acquired = [t \in Procs |-> FALSE]
    /\ lastrowid = [t \in Procs |-> 0]
    /\ records = [t \in Procs |-> <<>>]
    /\ result = [t \in Procs |-> NoResult]
    /\ calls = 0
    /\ callno = [t \in Procs |-> 0]
    /\ faults = 0
    /\ owner = <<>>
    /\ lockOrder = <<>>
    /\ commitOrder = <<>>

\* init() has returned on a new file, lines 181-189
InitDone ==
    /\ path_exists = TRUE
    /\ schema = FullSchema
    /\ db_first_launch = TRUE
    /\ ipc = "returned"
    /\ inits = 1

\* the state after init() on a new file: the empty events table of lines
\* 62-76, the lock of line 26 free
Init ==
    /\ InitCalls
    /\ InitDone
    /\ raw = <<"0">>
    /\ amount = NoAmount

----------------------------------------------------------------------------
(* Calls.  A thread that is in no call starts one; limit bounds the run.   *)

Free(t) == pc[t] \in {"idle", "done"}

\* what a new call resets of its thread
Enter(t, name, e, id) ==
    /\ op' = [op EXCEPT ![t] = name]
    /\ event' = [event EXCEPT ![t] = e]
    /\ event_id' = [event_id EXCEPT ![t] = id]
    /\ acquired' = [acquired EXCEPT ![t] = FALSE]
    /\ lastrowid' = [lastrowid EXCEPT ![t] = 0]
    /\ records' = [records EXCEPT ![t] = <<>>]
    /\ calls' = calls + 1
    /\ callno' = [callno EXCEPT ![t] = calls + 1]

\* process_event(event), lines 219-233 up to __insert: the shape checks
\* and the decoding touch nothing shared; a failure ends the call, a
\* ParsedEvent goes on to __add and __insert
ProcessEvent(t, e, limit) ==
    /\ Free(t)
    /\ calls < limit
    /\ Enter(t, "process_event", e, 0)
    /\ IF ParseEvent(e).err # ""
       THEN /\ pc' = [pc EXCEPT ![t] = "done"]
            /\ result' = [result EXCEPT ![t] = Failed(ParseEvent(e).err)]
       ELSE /\ pc' = [pc EXCEPT ![t] = "lock"]
            /\ result' = [result EXCEPT ![t] = NoResult]
    /\ UNCHANGED <<lock, store, faults, lockOrder,
                   setup, scaling>>

\* get_by_id(event_id), line 191
GetById(t, id, limit) ==
    /\ Free(t)
    /\ calls < limit
    /\ Enter(t, "get_by_id", NoEvent, id)
    /\ pc' = [pc EXCEPT ![t] = "lock"]
    /\ result' = [result EXCEPT ![t] = NoResult]
    /\ UNCHANGED <<lock, store, faults, lockOrder,
                   setup, scaling>>

\* get_all(), line 207
GetAll(t, limit) ==
    /\ Free(t)
    /\ calls < limit
    /\ Enter(t, "get_all", NoEvent, 0)
    /\ pc' = [pc EXCEPT ![t] = "lock"]
    /\ result' = [result EXCEPT ![t] = NoResult]
    /\ UNCHANGED <<lock, store, faults, lockOrder,
                   setup, scaling>>

----------------------------------------------------------------------------
(* __lock and __release, lines 28-32 *)

\* where a call goes on after __lock
AfterLock(name) == IF name = "process_event" THEN "execute" ELSE "select"

\* lock.acquire(blocking=True, timeout=1000) with the lock free: it is taken
Acquire(t) ==
    /\ pc[t] = "lock"
    /\ ~lock
    /\ lock' = TRUE
    /\ acquired' = [acquired EXCEPT ![t] = TRUE]
    /\ pc' = [pc EXCEPT ![t] = AfterLock(op[t])]
    /\ lockOrder' = IF op[t] = "process_event"
                    THEN Append(lockOrder, callno[t]) ELSE lockOrder
    /\ UNCHANGED <<store, op, event, event_id, lastrowid, records, result,
                   calls, callno, faults,
                   setup, scaling>>

\* lock.acquire(blocking=True, timeout=1000) with the lock held for the
\* whole 1000 s: it returns False.  __lock drops the returned value, so
\* the caller goes on as after a successful acquire.
Timeout(t) ==
    /\ pc[t] = "lock"
    /\ lock
    /\ acquired' = [acquired EXCEPT ![t] = FALSE]
    /\ pc' = [pc EXCEPT ![t] = AfterLock(op[t])]
    /\ UNCHANGED <<lock, store, op, event, event_id, lastrowid, records,
                   result, calls, callno, faults, lockOrder,
                   setup, scaling>>

\* what the call returns once the lock is released: lines 84-87, 203-205,
\* 216-217
CallResult(t) ==
    IF op[t] = "process_event" THEN InsertResult(lastrowid[t])
    ELSE IF op[t] = "get_by_id" THEN GetByIdResult(records[t])
    ELSE GetAllResult(records[t])

\* __release, line 32: lock.release() frees the lock whoever took it, and
\* raises RuntimeError on a lock that is not held
Release(t) ==
    /\ pc[t] = "release"
    /\ IF lock
       THEN /\ lock' = FALSE
            /\ result' = [result EXCEPT ![t] = CallResult(t)]
       ELSE /\ lock' = lock
            /\ result' = [result EXCEPT ![t] = Failed(ReleaseError)]
    /\ pc' = [pc EXCEPT ![t] = "done"]
    /\ UNCHANGED <<store, op, event, event_id, acquired, lastrowid, records,
                   calls, callno, faults, lockOrder,
                   setup, scaling>>

----------------------------------------------------------------------------
(* Statements on the connection *)

\* the elements of a set of ids in ascending order
Ascending(S) ==
    [k \in 1..Cardinality(S) |->
        CHOOSE x \in S : Cardinality({y \in S : y < x}) = k - 1]

\* a statement or commit that raises ends the call where it is: nothing
\* after it runs, __release included
Fails(t, at) ==
    /\ pc[t] = at
    /\ faults < MaxFaults
    /\ faults' = faults + 1
    /\ pc' = [pc EXCEPT ![t] = "done"]
    /\ result' = [result EXCEPT ![t] = Failed(StorageError)]
    /\ UNCHANGED <<lock, store, op, event, event_id, acquired, lastrowid,
                   records, calls, callno, lockOrder,
                   setup, scaling>>

\* __insert, lines 81-82: cursor.execute(query, values) writes the row in
\* the connection's transaction
Execute(t) ==
    /\ pc[t] = "execute"
    /\ schema = FullSchema
    /\ LET id == NextRowId(rows)
       IN /\ rows' = Append(rows, InsertRow(id, AddValues(ParseEvent(event[t]).val)))
          /\ pending' = pending \cup {id}
          /\ owner' = Append(owner, [call |-> callno[t], event |-> event[t]])
          /\ lastrowid' = [lastrowid EXCEPT ![t] = id]
    /\ pc' = [pc EXCEPT ![t] = "commit"]
    /\ UNCHANGED <<lock, commitOrder, op, event, event_id, acquired, records,
                   result, calls, callno, faults, lockOrder,
                   setup, scaling>>

ExecuteFails(t) == Fails(t, "execute")

\* __insert, line 83: db.commit() commits the connection's transaction,
\* with every row written in it
Commit(t) ==
    /\ pc[t] = "commit"
    /\ pending' = {}
    /\ commitOrder' = commitOrder \o Ascending(pending)
    /\ pc' = [pc EXCEPT ![t] = "release"]
    /\ UNCHANGED <<lock, rows, owner, op, event, event_id, acquired, lastrowid,
                   records, result, calls, callno, faults, lockOrder,
                   setup, scaling>>

CommitFails(t) == Fails(t, "commit")

\* get_by_id lines 194-199, get_all lines 211-212: cursor.execute(SELECT)
Select(t) ==
    /\ pc[t] = "select"
    /\ schema = FullSchema
    /\ pc' = [pc EXCEPT ![t] = "fetch"]
    /\ UNCHANGED <<lock, store, op, event, event_id, acquired, lastrowid,
                   records, result, calls, callno, faults, lockOrder,
                   setup, scaling>>

SelectFails(t) == Fails(t, "select")

\* get_by_id line 200, get_all line 213: cursor.fetchall() steps through
\* the rows the connection sees, its own uncommitted ones included
Fetch(t) ==
    /\ pc[t] = "fetch"
    /\ records' = [records EXCEPT ![t] =
                      IF op[t] = "get_by_id" THEN SelectById(rows, event_id[t])
                      ELSE SelectAll(rows)]
    /\ pc' = [pc EXCEPT ![t] = "release"]
    /\ UNCHANGED <<lock, store, op, event, event_id, acquired, lastrowid,
                   result, calls, callno, faults, lockOrder,
                   setup, scaling>>

\* the statement finds no events table or geometry column in the file and
\* raises sqlite3.OperationalError: the call ends there, before __release
NoTable(t, at) ==
    /\ pc[t] = at
    /\ schema # FullSchema
    /\ pc' = [pc EXCEPT ![t] = "done"]
    /\ result' = [result EXCEPT ![t] = Failed(StorageError)]
    /\ UNCHANGED <<lock, store, op, event, event_id, acquired, lastrowid,
                   records, calls, callno, faults, lockOrder, setup, scaling>>

ExecuteNoTable(t) == NoTable(t, "execute")

SelectNoTable(t) == NoTable(t, "select")

----------------------------------------------------------------------------
(* init(path), lines 181-189, with __load_sqlean, __init_db and            *)
(* __use_initial_queries, lines 44-76.  The schema statements run outside  *)
(* a transaction: what each creates stays in the file.                     *)

\* init(path) is called, by a caller that is in no other call; line 182
InitCall(limit) ==
    /\ ipc \in {"idle", "returned", "raised"}
    /\ \A t \in Procs : Free(t)
    /\ inits < limit
    /\ inits' = inits + 1
    /\ db_first_launch' = ~path_exists
    /\ ipc' = "connect"
    /\ UNCHANGED <<lock, store, thread, calls, faults, lockOrder,
                   path_exists, schema, scaling>>

\* a step of init that leaves the file as it is
InitGoes(from, to) ==
    /\ ipc = from
    /\ ipc' = to
    /\ UNCHANGED <<lock, store, thread, calls, faults, lockOrder,
                   path_exists, schema, db_first_launch, inits, scaling>>

\* a schema statement: what it creates is in the file from then on
InitCreates(from, what, to) ==
    /\ ipc = from
    /\ schema' = schema \cup {what}
    /\ ipc' = to
    /\ UNCHANGED <<lock, store, thread, calls, faults, lockOrder,
                   path_exists, db_first_launch, inits, scaling>>

\* __load_sqlean, line 48: sqlean.connect(path) creates the file when
\* there is none
Connect ==
    /\ ipc = "connect"
    /\ path_exists' = TRUE
    /\ ipc' = "load_extension"
    /\ UNCHANGED <<lock, store, thread, calls, faults, lockOrder,
                   schema, db_first_launch, inits, scaling>>

\* __load_sqlean, lines 50-52, then the test of line 184
LoadExtension ==
    InitGoes("load_extension", IF db_first_launch THEN "init_db" ELSE "realms")

\* __init_db, line 45
InitDb == InitCreates("init_db", "spatial_metadata", "create_table")

\* __use_initial_queries, lines 62-72: CREATE TABLE IF NOT EXISTS events
CreateTable == InitCreates("create_table", "events", "active_pos")

\* __use_initial_queries, line 74
AddActivePos == InitCreates("active_pos", "active_pos", "passive_pos")

\* __use_initial_queries, line 76
AddPassivePos == InitCreates("passive_pos", "passive_pos", "realms")

\* lines 188-189: the registry is loaded and init returns
InitReturns == InitGoes("realms", "returned")

\* load_extension or a schema statement raises: init ends there
InitFails ==
    /\ ipc \in {"load_extension", "init_db", "create_table", "active_pos",
                "passive_pos"}
    /\ faults < MaxFaults
    /\ faults' = faults + 1
    /\ ipc' = "raised"
    /\ UNCHANGED <<lock, store, thread, calls, lockOrder,
                   path_exists, schema, db_first_launch, inits, scaling>>

----------------------------------------------------------------------------
(* The scaling of one raw amount, line 125 *)

\* raw amount words: one to three leading digits, zeros, three last digits
ScaleWords ==
    {W(hi \o [k \in 1..z |-> "0"] \o lo) :
        hi \in {<<"0">>, <<"1">>, <<"3", "e", "8">>},
        z \in 0..MaxZeros,
        lo \in {<<"0", "0", "0">>, <<"3", "8", "8">>, <<"1", "f", "4">>,
                <<"3", "e", "7">>, <<"3", "e", "8">>}}

\* __parse_resources, line 125, on the word raw
Scale ==
    /\ ~amount.set
    /\ amount' = [set |-> TRUE, bits |-> ScaleAmountWide(raw)]
    /\ UNCHANGED <<lock, store, thread, calls, faults, lockOrder, setup, raw>>

\* the next word is read
NextWord ==
    /\ amount.set
    /\ raw' \in ScaleWords
    /\ amount' = NoAmount
    /\ UNCHANGED <<lock, store, thread, calls, faults, lockOrder, setup>>

----------------------------------------------------------------------------
(* Specifications *)

\* a step of thread t inside its call
Step(t) ==
    \/ Acquire(t)
    \/ Timeout(t)
    \/ Execute(t)
    \/ ExecuteFails(t)
    \/ Commit(t)
    \/ CommitFails(t)
    \/ Select(t)
    \/ SelectFails(t)
    \/ Fetch(t)
    \/ Release(t)

\* NumProcs threads call concurrently
Next ==
    \E t \in Procs :
        \/ \E e \in ConcurrentEvents : ProcessEvent(t, e, MaxCalls)
        \/ \E id \in 1..(Len(rows) + 1) : GetById(t, id, MaxCalls)
        \/ GetAll(t, MaxCalls)
        \/ Step(t)

Spec == Init /\ [][Next]_vars

\* one caller makes its calls one after the other, with every envelope
NextSeq ==
    \/ \E e \in Events : ProcessEvent(1, e, MaxSeqCalls)
    \/ \E id \in 1..(Len(rows) + 1) : GetById(1, id, MaxSeqCalls)
    \/ GetAll(1, MaxSeqCalls)
    \/ Step(1)

SpecSeq == Init /\ [][NextSeq]_vars

\* one caller ingests a few envelopes and reads the store back
NextBatch ==
    \/ \E e \in ConcurrentEvents : ProcessEvent(1, e, MaxBatchCalls)
    \/ \E id \in 1..(Len(rows) + 1) : GetById(1, id, MaxBatchCalls)
    \/ GetAll(1, MaxBatchCalls)
    \/ Step(1)

SpecBatch == Init /\ [][NextBatch]_vars

\* nothing has been called yet and there is no file
InitNoFile ==
    /\ InitCalls
    /\ path_exists = FALSE
    /\ schema = {}
    /\ db_first_launch = FALSE
    /\ ipc = "idle"
    /\ inits = 0
    /\ raw = <<"0">>
    /\ amount = NoAmount

\* the caller ingests an envelope once init has returned
ReadyProcessEvent(e) == ipc = "returned" /\ ProcessEvent(1, e, MaxInitCalls)

\* the caller reads the store once init has returned
ReadyGetAll == ipc = "returned" /\ GetAll(1, MaxInitCalls)

\* one caller calls init on the same path again and again, and uses the
\* store whenever init has returned; init is not called during a call
NextInit ==
    \/ InitCall(MaxInits)
    \/ Connect
    \/ LoadExtension
    \/ InitDb
    \/ CreateTable
    \/ AddActivePos
    \/ AddPassivePos
    \/ InitReturns
    \/ InitFails
    \/ \E e \in ConcurrentEvents : ReadyProcessEvent(e)
    \/ ReadyGetAll
    \/ Acquire(1)
    \/ Timeout(1)
    \/ Execute(1)
    \/ ExecuteNoTable(1)
    \/ Commit(1)
    \/ Select(1)
    \/ SelectNoTable(1)
    \/ Fetch(1)
    \/ Release(1)

SpecInit == InitNoFile /\ [][NextInit]_vars

\* raw amount words are scaled one after the other
InitScale ==
    /\ InitCalls
    /\ InitDone
    /\ raw \in ScaleWords
    /\ amount = NoAmount

NextScale == Scale \/ NextWord

SpecScale == InitScale /\ [][NextScale]_vars

----------------------------------------------------------------------------
(* What the wire format says of an envelope, read off the words alone      *)
(* (the layout of spec sections 3 and 4.2), for stating the claims.        *)

WellShaped(e) ==
    /\ e.hasEvent /\ e.hasKeys /\ e.hasData
    /\ e.keys # <<>> /\ e.data # <<>>

AllHex(ws) == \A i \in 1..Len(ws) : IsHexWord(ws[i])

\* the words of a resource array at offset o (0-based) are all there
ResourcesFit(data, o) ==
    /\ o < Len(data)
    /\ o + 2 * IntAt(data, o) < Len(data)

\* the offset just after the resource array at offset o
AfterResources(data, o) == o + 1 + 2 * IntAt(data, o)

\* a CombatOutcome envelope whose words are all there
CombatWellFormed(e) ==
    /\ WellShaped(e) /\ AllHex(e.data)
    /\ GetEventType(e.keys) = COMBAT_OUTCOME_KEY
    /\ Len(e.keys) >= 3 /\ IsHexWord(e.keys[2]) /\ IsHexWord(e.keys[3])
    /\ IntAt(e.data, 0) < Len(e.data)
    /\ ResourcesFit(e.data, 1 + IntAt(e.data, 0))
    /\ AfterResources(e.data, 1 + IntAt(e.data, 0)) + 2 < Len(e.data)

\* a TradeAccepted envelope whose words are all there
TradeWellFormed(e) ==
    /\ WellShaped(e) /\ AllHex(e.data)
    /\ GetEventType(e.keys) = ORDER_ACCEPTED_KEY
    /\ Len(e.keys) >= 2 /\ IsHexWord(e.keys[2])
    /\ Len(e.data) >= 2
    /\ ResourcesFit(e.data, 2)
    /\ ResourcesFit(e.data, AfterResources(e.data, 2))
    /\ AfterResources(e.data, AfterResources(e.data, 2)) < Len(e.data)

\* the entity ids an envelope refers to
CombatRealms(e) == {IntAt(e.keys, 1), IntAt(e.keys, 2)}
TradeRealms(e) == {IntAt(e.data, 0), IntAt(e.data, 1)}

\* a valid envelope: of a known type, all its words there, its realms known
ValidEvent(e) ==
    \/ CombatWellFormed(e) /\ CombatRealms(e) \subseteq RealmIds
    \/ TradeWellFormed(e) /\ TradeRealms(e) \subseteq RealmIds

\* the ids of the rows of the table
RowIds == {rows[i].id : i \in 1..Len(rows)}

\* thread t is between lock.acquire and lock.release
PastLock(t) == pc[t] \in {"execute", "commit", "select", "fetch", "release"}

\* thread t has issued a statement on the connection and not finished its
\* last one: the commit after an INSERT, the fetchall after a SELECT
OnConnection(t) == pc[t] \in {"commit", "fetch"}

----------------------------------------------------------------------------
(* Claims *)

\* C1: when NumProcs process_event calls with valid envelopes have run
\* concurrently on the fresh store and the store failed no statement, every
\* call has returned an id, the ids are distinct, and the ids returned and
\* the ids stored are exactly 1..NumProcs.
C1_ConcurrentInsertsGetDistinctIds ==
    ( /\ calls = NumProcs
      /\ faults = 0
      /\ \A t \in Procs : /\ pc[t] = "done"
                          /\ op[t] = "process_event"
                          /\ ValidEvent(event[t]) )
    => /\ \A t \in Procs : result[t].err = ""
       /\ \A t, u \in Procs : t # u => result[t].val # result[u].val
       /\ {result[t].val : t \in Procs} = 1..NumProcs
       /\ RowIds = 1..NumProcs

\* C2: at most one operation at a time is between its first statement on
\* the connection and the end of its last one.
C2_MutualExclusion ==
    Cardinality({t \in Procs : OnConnection(t)}) <= 1

\* C3: an operation whose lock.acquire timed out gives up: it never gets
\* past __lock to issue a statement or to release the lock.
C3_TimeoutGivesUp ==
    \A t \in Procs : PastLock(t) => acquired[t]

\* C4: as long as the store fails no statement, the k-th committed row has
\* id k, and the committed rows were written, in this order, by the inserts
\* that acquired the lock, in the order in which they acquired it.
C4_CommitOrderIsLockOrder ==
    faults = 0 =>
       /\ \A k \in 1..Len(commitOrder) : commitOrder[k] = k
       /\ Len(commitOrder) <= Len(lockOrder)
       /\ \A k \in 1..Len(commitOrder) : owner[commitOrder[k]].call = lockOrder[k]

\* C5: a get_all that returns, returns the rows of the table in ascending id
\* order, each once and as a StoredEvent, every committed row among them;
\* after three inserts these are the rows 1, 2, 3.
C5_GetAllAscending ==
    \A t \in Procs :
        (op[t] = "get_all" /\ pc[t] = "done" /\ result[t].err = "") =>
            LET got == result[t].val
            IN /\ \A k \in 1..Len(got) : got[k][1] = k
               /\ \A k \in 1..Len(commitOrder) :
                     /\ commitOrder[k] <= Len(got)
                     /\ got[commitOrder[k]] = StoredEvent(SelectColumns(rows[commitOrder[k]]))
               /\ Len(got) = Len(rows)

C5_Witness ==
    /\ op[1] = "get_all" /\ pc[1] = "done" /\ result[1].err = ""
    /\ commitOrder = <<1, 2, 3>>
    /\ Len(result[1].val) = 3
    /\ result[1].val[1][1] = 1 /\ result[1].val[3][1] = 3

\* what a CombatOutcome envelope's words say of its variant fields (spec
\* section 4.2): the N words after the count N, the M (type, raw amount)
\* pairs after the count M, then winner and damage
CombatFields(e) ==
    LET n == IntAt(e.data, 0)
        o == 1 + n
        m == IntAt(e.data, o)
        w == AfterResources(e.data, o)
    IN PyDict(<<
         <<"attacking_entity_ids",
           PyList([k \in 1..n |-> PyInt(IntAt(e.data, k))])>>,
         <<"stolen_resources",
           PyList([k \in 1..m |->
              PyDict(<< <<"type", PyInt(IntAt(e.data, o + 2 * k - 1))>>,
                        <<"amount", PyInt(IntAt(e.data, o + 2 * k) \div 1000)>> >>)])>>,
         <<"winner", PyInt(IntAt(e.data, w))>>,
         <<"damage", PyInt(IntAt(e.data, w + 1))>> >>)

CombatTs(e) == IntAt(e.data, AfterResources(e.data, 1 + IntAt(e.data, 0)) + 2)

\* the call thread t is in or has finished wrote no row
WroteNoRow(t) == \A i \in 1..Len(owner) : owner[i].call # callno[t]

\* thread t is in process_event, or has finished it
InProcessEvent(t) == op[t] = "process_event" /\ pc[t] # "idle"

\* thread t's process_event failed while decoding, before __add
FailedDecoding(t) ==
    /\ pc[t] = "done" /\ result[t].err # ""
    /\ ~acquired[t] /\ WroteNoRow(t)

\* thread t's get_by_id has returned the row of a valid CombatOutcome
\* envelope
ReadBackCombat(t) ==
    /\ op[t] = "get_by_id" /\ pc[t] = "done" /\ result[t].err = ""
    /\ event_id[t] \in 1..Len(owner)
    /\ CombatWellFormed(owner[event_id[t]].event)
    /\ CombatRealms(owner[event_id[t]].event) \subseteq RealmIds

\* C6: get_by_id of the id of a valid CombatOutcome envelope returns its
\* row: the positions are the registry's of keys[1] and keys[2], ts and
\* the variant fields in metadata are those of the envelope's words.
C6_CombatRoundTrip ==
    \A t \in Procs :
        ReadBackCombat(t) =>
            LET e == owner[event_id[t]].event
                got == result[t].val
            IN /\ got[1] = event_id[t]
               /\ got[6] = RealmTable[IntAt(e.keys, 1)]
               /\ got[7] = RealmTable[IntAt(e.keys, 2)]
               /\ got[4] = CombatTs(e)
               /\ got[5] = JsonDumps(CombatFields(e))

\* C7: a process_event whose keys[0] names neither event type fails while
\* decoding and writes no row.
C7_UnknownDiscriminantFails ==
    \A t \in Procs :
        ( /\ InProcessEvent(t) /\ WellShaped(event[t])
          /\ GetEventType(event[t].keys)
                \notin {COMBAT_OUTCOME_KEY, ORDER_ACCEPTED_KEY} )
        => FailedDecoding(t)

\* some length prefix of e's data declares more words than remain: the
\* count of attacking ids or of stolen resources of a CombatOutcome, the
\* count of the maker's or the taker's resources of a TradeAccepted
Truncated(e) ==
    /\ WellShaped(e) /\ AllHex(e.data)
    /\ \/ /\ GetEventType(e.keys) = COMBAT_OUTCOME_KEY
          /\ \/ IntAt(e.data, 0) > Len(e.data) - 1
             \/ /\ 1 + IntAt(e.data, 0) < Len(e.data)
                /\ ~ResourcesFit(e.data, 1 + IntAt(e.data, 0))
       \/ /\ GetEventType(e.keys) = ORDER_ACCEPTED_KEY
          /\ Len(e.data) > 2
          /\ \/ ~ResourcesFit(e.data, 2)
             \/ /\ AfterResources(e.data, 2) < Len(e.data)
                /\ ~ResourcesFit(e.data, AfterResources(e.data, 2))

\* C8: a process_event of an envelope with a length prefix that declares
\* more words than remain fails while decoding, with the exception of a
\* failed read, and writes no row.
C8_TruncatedFails ==
    \A t \in Procs :
        (InProcessEvent(t) /\ Truncated(event[t])) =>
            /\ FailedDecoding(t)
            /\ result[t].err \in {IndexError, ValueError}

C8_Witness ==
    /\ InProcessEvent(1) /\ Truncated(event[1])
    /\ Len(event[1].keys) >= 3
    /\ GetEventType(event[1].keys) = COMBAT_OUTCOME_KEY
    /\ IntAt(event[1].data, 0) < Len(event[1].data)
    /\ pc[1] = "done" /\ result[1].err = IndexError
    /\ rows # <<>>

\* e names an entity id its variant refers to, and the registry lacks it
UnknownRealm(e) ==
    /\ WellShaped(e)
    /\ \/ /\ GetEventType(e.keys) = COMBAT_OUTCOME_KEY
          /\ ReadError(e.keys, <<1, 2>>) = ""
          /\ ~(CombatRealms(e) \subseteq RealmIds)
       \/ /\ GetEventType(e.keys) = ORDER_ACCEPTED_KEY
          /\ ReadError(e.data, <<0, 1>>) = ""
          /\ ~(TradeRealms(e) \subseteq RealmIds)

\* C9: a process_event of an envelope that refers to an entity id the
\* registry lacks fails while decoding and writes no row; when the words of
\* the envelope are all there, the failure is RealmNotFound.
C9_UnknownRealmFails ==
    \A t \in Procs :
        (InProcessEvent(t) /\ UnknownRealm(event[t])) =>
            /\ FailedDecoding(t)
            /\ (CombatWellFormed(event[t]) \/ TradeWellFormed(event[t]))
                  => result[t].err = RealmNotFound

C9_Witness ==
    /\ InProcessEvent(1) /\ UnknownRealm(event[1])
    /\ TradeWellFormed(event[1])
    /\ IntAt(event[1].data, 0) \in RealmIds
    /\ pc[1] = "done" /\ result[1].err = RealmNotFound
    /\ rows # <<>>

\* C10: a process_event of an envelope without eventEmitted, keys or data,
\* or with one of them empty, fails with the RuntimeError of the shape
\* checks, never gets to the lock and writes no row.
C10_MalformedEnvelopeFails ==
    \A t \in Procs :
        (InProcessEvent(t) /\ ~WellShaped(event[t])) =>
            /\ FailedDecoding(t)
            /\ result[t].err \in {NoEventEmitted, NoKeys, NoData}
            /\ \A k \in 1..Len(lockOrder) : lockOrder[k] # callno[t]

C10_Witness ==
    /\ InProcessEvent(1) /\ pc[1] = "done"
    /\ event[1].hasEvent /\ event[1].hasKeys /\ event[1].keys # <<>>
    /\ ~event[1].hasData
    /\ result[1].err = NoData
    /\ rows # <<>>

\* thread t's process_event has failed
ProcessEventFailed(t) ==
    op[t] = "process_event" /\ pc[t] = "done" /\ result[t].err # ""

\* C11: a process_event that has failed, while decoding or in the insert,
\* has left no row in the table: the rows are those of the other calls.
C11_FailedEventLeavesNoRow ==
    \A t \in Procs : ProcessEventFailed(t) => WroteNoRow(t)

\* no call is in progress
Quiescent == \A t \in Procs : pc[t] \in {"idle", "done"}

\* C20: whenever no insert, get_by_id or get_all is in progress the lock is
\* free, also after a statement or commit that raised.
C20_LockFreeWhenQuiescent == Quiescent => ~lock

\* thread t's get_by_id has finished
GetByIdDone(t) == op[t] = "get_by_id" /\ pc[t] = "done"

\* C13: get_by_id of an id without a row never returns a row: it raises,
\* IndexError once the SELECT has run; get_by_id of an id with a row returns
\* that row as a StoredEvent, unless the SELECT raised; it writes no row.
C13_GetByIdFindsOrFails ==
    \A t \in Procs :
        GetByIdDone(t) =>
            /\ event_id[t] \notin RowIds =>
                  result[t].err \in {IndexError, StorageError}
            /\ event_id[t] \in RowIds =>
                  /\ result[t].err \in {"", StorageError}
                  /\ result[t].err = "" =>
                        result[t].val =
                           StoredEvent(SelectColumns(rows[event_id[t]]))
            /\ WroteNoRow(t)

C13_Witness ==
    /\ GetByIdDone(1)
    /\ rows # <<>> /\ event_id[1] \notin RowIds
    /\ result[1].err = IndexError

\* the count N of attacking ids of a CombatOutcome envelope
IdCount(e) == IntAt(e.data, 0)

\* the count M of stolen resources of a CombatOutcome envelope
StolenCount(e) == IntAt(e.data, 1 + IdCount(e))

\* C14: for a CombatOutcome envelope whose words are all there, the decoded
\* attacking_entity_ids are the N words after the count word, in order.
C14_AttackingIdsAreTheNWords ==
    \A t \in Procs :
        (InProcessEvent(t) /\ CombatWellFormed(event[t])) =>
            ParseAttackingEntityIds(event[t].data).val =
               PyList([k \in 1..IdCount(event[t]) |->
                          PyInt(IntAt(event[t].data, k))])

\* C15: for a CombatOutcome envelope whose words are all there, the id array
\* takes 1 + N words and the resource array the next 1 + 2 * M, and winner,
\* damage and ts are the words at offsets N + 2M + 2, N + 2M + 3, N + 2M + 4.
C15_CombatCursor ==
    \A t \in Procs :
        (InProcessEvent(t) /\ CombatWellFormed(event[t])) =>
            LET e == event[t]
                n == IdCount(e)
                m == StolenCount(e)
                ids == ParseAttackingEntityIds(e.data)
                res == ParseResources(ids.rest)
                p == ParseCombatOutcomeEvent(e.keys, e.data)
            IN /\ ids.err = "" /\ ids.rest = SliceFrom(e.data, 1 + n)
               /\ res.err = "" /\ res.rest = SliceFrom(e.data, 1 + n + 1 + 2 * m)
               /\ p.err = "" =>
                     /\ Get(p.val, "winner") = PyInt(IntAt(e.data, n + 2 * m + 2))
                     /\ Get(p.val, "damage") = PyInt(IntAt(e.data, n + 2 * m + 3))
                     /\ Get(p.val, "ts") = PyInt(IntAt(e.data, n + 2 * m + 4))

C15_Witness ==
    /\ InProcessEvent(1) /\ CombatWellFormed(event[1])
    /\ IdCount(event[1]) = 2 /\ StolenCount(event[1]) = 1
    /\ pc[1] = "done" /\ result[1].err = ""
    /\ rows[result[1].val].ts = IntAt(event[1].data, 8)

\* the resource array at offset o of data: M (type, raw amount) pairs after
\* the count M, the amount scaled down by 1000
ResourcesAt(data, o) ==
    PyList([k \in 1..IntAt(data, o) |->
       PyDict(<< <<"type", PyInt(IntAt(data, o + 2 * k - 1))>>,
                 <<"amount", PyInt(IntAt(data, o + 2 * k) \div 1000)>> >>)])

\* C17: for a valid TradeAccepted envelope, maker and taker are data[0] and
\* data[1], resources_maker is the array at offset 2, resources_taker the
\* array after it, ts the word at offset 2A + 2B + 4, and the positions are
\* the registry's of the maker and of the taker.
C17_TradeLayout ==
    \A t \in Procs :
        ( /\ InProcessEvent(t) /\ TradeWellFormed(event[t])
          /\ TradeRealms(event[t]) \subseteq RealmIds ) =>
            LET d == event[t].data
                a == IntAt(d, 2)
                b == IntAt(d, AfterResources(d, 2))
                p == ParseTradeEvent(event[t].keys, d)
            IN /\ p.err = ""
               /\ Get(p.val, "active_pos") = PositionById(IntAt(d, 0)).val
               /\ Get(p.val, "passive_pos") = PositionById(IntAt(d, 1)).val
               /\ Get(p.val, "resources_maker") = ResourcesAt(d, 2)
               /\ Get(p.val, "resources_taker") = ResourcesAt(d, 3 + 2 * a)
               /\ Get(p.val, "ts") = PyInt(IntAt(d, 2 * a + 2 * b + 4))

C17_Witness ==
    /\ InProcessEvent(1) /\ TradeWellFormed(event[1])
    /\ IntAt(event[1].data, 2) = 1
    /\ IntAt(event[1].data, 0) = 1 /\ IntAt(event[1].data, 1) = 2
    /\ pc[1] = "done" /\ result[1].err = ""
    /\ rows[result[1].val].type = SQL_ORDER_ACCEPTED

\* the fields of a ParsedEvent that have a column of their own
ColumnKeys == {"type", "importance", "ts", "active_pos", "passive_pos"}

\* the other fields of a ParsedEvent, in their order
VariantFields(p) ==
    LET NoColumn(item) == item[1] \notin ColumnKeys
    IN PyDict(SelectSeq(p.v, NoColumn))

\* the elements of a sequence
Items(s) == {s[k] : k \in 1..Len(s)}

\* the nesting depth of token k of a JSON text: brackets opened before it
\* minus brackets closed before it
Depth(tokens, k) ==
    Cardinality({j \in 1..(k - 1) : tokens[j] \in {"{", "["}})
    - Cardinality({j \in 1..(k - 1) : tokens[j] \in {"}", "]"}})

\* the keys of the outermost object of a JSON text
TopLevelKeys(tokens) ==
    {tokens[k] : k \in {j \in 2..(Len(tokens) - 2) :
                           /\ tokens[j - 1] = "\"" /\ tokens[j + 1] = "\""
                           /\ tokens[j + 2] = ": "
                           /\ Depth(tokens, j) = 1}}

\* C18: every row has the type, the ts and the two positions of the
\* ParsedEvent it was written from in its columns, and its metadata is the
\* JSON text of the other fields of that ParsedEvent, with their values and
\* without any of type, importance, ts, active_pos, passive_pos.
C18_MetadataIsTheVariantFields ==
    \A i \in 1..Len(rows) :
        LET p == ParseEvent(owner[i].event).val
        IN /\ rows[i].type = Get(p, "type").v
           /\ rows[i].ts = Get(p, "ts").v
           /\ <<X(rows[i].active_pos), Y(rows[i].active_pos)>> =
                 <<Get(p, "active_pos").v[1].v, Get(p, "active_pos").v[2].v>>
           /\ <<X(rows[i].passive_pos), Y(rows[i].passive_pos)>> =
                 <<Get(p, "passive_pos").v[1].v, Get(p, "passive_pos").v[2].v>>
           /\ rows[i].metadata = JsonDumps(VariantFields(p))
           /\ TopLevelKeys(rows[i].metadata) \cap ColumnKeys = {}
           /\ TopLevelKeys(rows[i].metadata) = {item[1] : item \in Items(p.v)}
                                                  \ ColumnKeys

C18_Witness ==
    /\ Len(rows) = 2
    /\ rows[1].type = SQL_COMBAT_OUTCOME /\ rows[2].type = SQL_ORDER_ACCEPTED
    /\ pending = {}

\* C19: every row has importance 4, whatever its envelope; the importance
\* its decoder computed is 0.
C19_ImportanceIsFour ==
    \A i \in 1..Len(rows) :
        /\ rows[i].importance = 4
        /\ Get(ParseEvent(owner[i].event).val, "importance") = PyInt(0)

C19_Witness ==
    /\ Len(rows) = 2 /\ commitOrder = <<1, 2>>
    /\ rows[1].type = SQL_ORDER_ACCEPTED /\ rows[2].type = SQL_COMBAT_OUTCOME
    /\ rows[1].importance = 4 /\ rows[2].importance = 4

\* C12: whenever init has returned, the file has the whole schema: the
\* spatial metadata, the events table and its two geometry columns.
C12_ReadyHasSchema == ipc = "returned" => schema = FullSchema

\* the binary digits of int(w, base=16) // 1000
IntegerQuotient(w) == Strip(BitsOf(DivDigits(HexDigits(w), 0).q))

\* C16: the amount decoded from a raw amount word is the word's value
\* integer-divided by 1000.
C16_AmountIsIntegerQuotient ==
    amount.set => amount.bits = IntegerQuotient(raw)

====
